---- MODULE Spec2Model ----
(***************************************************************************)
(* Model of scripts/upload-analytics/upload_to_rds.py: the resumable       *)
(* upload of combined-analytics.csv into the analytics table.              *)
(*                                                                         *)
(* Strings are sequences of one-character strings, so that startswith and  *)
(* the string comparison of the sort key are computed character by         *)
(* character.  The store is the psycopg2 connection the script opens:      *)
(* autocommit is off, INSERTs stay in the open transaction (pending) and   *)
(* closing the connection without a commit discards them.                  *)
(***************************************************************************)
EXTENDS Integers, Sequences, FiniteSets, TLC

\* ------------------------------------------------------------------ bounds
MaxRows == 3      \* data rows in the input file
MaxRuns == 2      \* consecutive runs of main()

\* ----------------------------------------------------------------- strings
S_acme      == <<"a", "c", "m", "e">>
S_userstud  == <<"u", "s", "e", "r", "-", "s", "t", "u", "d">>
S_study42   == <<"u", "s", "e", "r", "-", "s", "t", "u", "d", "y", "-", "4", "2">>
S_t9        == <<"9">>
S_t10       == <<"1", "0">>

\* line 27: the literal 'user-study'
RESERVED_PREFIX == <<"u", "s", "e", "r", "-", "s", "t", "u", "d", "y">>

\* code points of the characters that occur in time fields
Ord(c) == CASE c = "0" -> 48 [] c = "1" -> 49 [] c = "9" -> 57 [] OTHER -> 0

MinOf(a, b) == IF a < b THEN a ELSE b

\* variant of StrLess that orders the time fields by their numeric value
StrLessNumeric(a, b) ==
    Len(a) < Len(b) \/
    (Len(a) = Len(b) /\
       \E i \in 1..Len(a) :
          /\ \A j \in 1..(i - 1) : a[j] = b[j]
          /\ Ord(a[i]) < Ord(b[i]))

\* Python str.__lt__: lexicographic by code point, a proper prefix is smaller
StrLess(a, b) ==
    \E i \in 1..(MinOf(Len(a), Len(b)) + 1) :
       /\ \A j \in 1..(i - 1) : a[j] = b[j]
       /\ \/ (i > Len(a) /\ i <= Len(b))
          \/ (i <= Len(a) /\ i <= Len(b) /\ Ord(a[i]) < Ord(b[i]))

\* variant of StartsWith that also accepts a string shorter than the prefix
StartsWithEither(s, p) ==
    LET n == MinOf(Len(s), Len(p)) IN SubSeq(s, 1, n) = SubSeq(p, 1, n)

\* Python str.startswith(prefix)
StartsWith(s, p) ==
    Len(s) >= Len(p) /\ SubSeq(s, 1, Len(p)) = p

\* ------------------------------------------------------------ input file
AllFields == {"time", "customer", "namespace", "event", "additional"}

\* header rows the file may carry: complete, or lacking one expected column
Headers == {AllFields, AllFields \ {"customer"}, AllFields \ {"time"},
            AllFields \ {"namespace"}}

Row(t, c, n) ==
    [time |-> t, customer |-> c, namespace |-> n, event |-> "e", additional |-> "x"]

RowPool == {Row(S_t9, S_acme, "a"), Row(S_t10, S_acme, "b"),
            Row(S_t10, S_study42, "c"), Row(S_t9, S_userstud, "d")}

Files == UNION {[1..n -> RowPool] : n \in 0..MaxRows}

\* ------------------------------------------------------------ read_input
RECURSIVE read_input(_)
read_input(rows) ==
    IF rows = <<>> THEN <<>>
    ELSE IF StartsWith(Head(rows).customer, RESERVED_PREFIX)
         THEN read_input(Tail(rows))
         ELSE <<Head(rows)>> \o read_input(Tail(rows))

\* ------------------------------------------------------------ sort_input
\* sorted(..., key=itemgetter('time')): stable, so an element goes after
\* every element already placed whose key is not greater than its own
RECURSIVE InsertSorted(_, _)
InsertSorted(s, x) ==
    IF s = <<>> THEN <<x>>
    ELSE IF StrLess(x.time, Head(s).time)
         THEN <<x>> \o s
         ELSE <<Head(s)>> \o InsertSorted(Tail(s), x)

RECURSIVE SortFrom(_, _)
SortFrom(acc, rest) ==
    IF rest = <<>> THEN acc
    ELSE SortFrom(InsertSorted(acc, Head(rest)), Tail(rest))

sort_input(s) == SortFrom(<<>>, s)

\* ------------------------------------------------------------------ store
\* SELECT MAX(id) FROM analytics: <<>> stands for NULL
RECURSIVE MaxId(_)
MaxId(t) ==
    IF Len(t) = 1 THEN t[1].id
    ELSE LET m == MaxId(Tail(t)) IN IF t[1].id > m THEN t[1].id ELSE m

LastIndexQuery(t) == IF t = <<>> THEN <<>> ELSE <<MaxId(t)>>

\* Python "x or -1": None and 0 are both falsy
PyOr(x) == IF x = <<>> \/ x[1] = 0 THEN -1 ELSE x[1]

get_next_index(t) == PyOr(LastIndexQuery(t)) + 1

\* rows of the open transaction as they would be stored
Stored(t, p, first) ==
    LET base == IF t = <<>> THEN first ELSE MaxId(t) + 1
    IN  [i \in 1..Len(p) |-> [id |-> base + i - 1, rec |-> p[i]]]

\* variant of ConnClose in which closing keeps the rows of the transaction
ConnCloseKeeps(t, p, first) == t \o Stored(t, p, first)

\* conn.close() with an open transaction and no commit: the rows are discarded
ConnClose(t, p, first) == t

\* ------------------------------------------------------------------ state
VARIABLES
    header,       \* columns named by the file's header row
    rows,         \* data rows of combined-analytics.csv
    table,        \* committed rows of the analytics table
    firstId,      \* first value of the table's id sequence
    run,          \* number of the current run of main()
    pc,           \* position in main()
    conn,         \* "none" | "open" | "closed"
    cursor,       \* "none" | "open" | "closed"
    start_idx,    \* result of get_next_index
    filtered,     \* records yielded by read_input
    sortedInput,  \* result of sort_input
    pos,          \* records consumed from enumerated_input
    pending,      \* rows inserted in the open transaction
    issued,       \* records for which INSERT_QUERY was executed in this run
    uploads,      \* per record position, INSERTs executed over all runs
    err,          \* exception raised in this run ("none" if none)
    errStage,     \* where it was raised
    out,          \* lines printed in this run
    exit,         \* "running" | "clean" | "uncaught"
    tableBefore   \* the table when this run started

vars == <<header, rows, table, firstId, run, pc, conn, cursor, start_idx,
          filtered, sortedInput, pos, pending, issued, uploads, err, errStage,
          out, exit, tableBefore>>

input == <<header, rows, firstId>>

\* The table holds what earlier uploads of the same file left there: a
\* prefix of the filtered, sorted records with consecutive ids.
Init ==
    /\ header \in Headers
    /\ rows \in Files
    /\ firstId \in {0, 1}
    /\ \E k \in 0..Len(sort_input(read_input(rows))) :
          table = [i \in 1..k |->
                     [id |-> firstId + i - 1,
                      rec |-> sort_input(read_input(rows))[i]]]
    /\ tableBefore = table
    /\ run = 1
    /\ pc = "connect"
    /\ conn = "none"
    /\ cursor = "none"
    /\ start_idx = 0
    /\ filtered = <<>>
    /\ sortedInput = <<>>
    /\ pos = 0
    /\ pending = <<>>
    /\ issued = <<>>
    /\ uploads = [i \in 1..Len(sort_input(read_input(rows))) |-> 0]
    /\ err = "none"
    /\ errStage = "none"
    /\ out = <<>>
    /\ exit = "running"

\* an exception raised inside the try block: control goes to the handler
Raise(e, stage) ==
    /\ err' = e
    /\ errStage' = stage
    /\ pc' = "except"

\* lines 41-48: psycopg2.connect and conn.cursor(), before the try block
ConnectOk ==
    /\ pc = "connect"
    /\ conn' = "open"
    /\ cursor' = "open"
    /\ pc' = "query"
    /\ UNCHANGED <<input, table, run, start_idx, filtered, sortedInput, pos,
                   pending, issued, uploads, err, errStage, out, exit,
                   tableBefore>>

\* line 41 raises: nothing is opened and nothing catches the exception
ConnectFail ==
    /\ pc = "connect"
    /\ err' = "OperationalError"
    /\ errStage' = "connect"
    /\ exit' = "uncaught"
    /\ pc' = "done"
    /\ UNCHANGED <<input, table, run, conn, cursor, start_idx, filtered,
                   sortedInput, pos, pending, issued, uploads, out,
                   tableBefore>>

\* lines 51-52
GetNextIndexOk ==
    /\ pc = "query"
    /\ start_idx' = get_next_index(table)
    /\ out' = Append(out, <<"startng from", get_next_index(table)>>)
    /\ pc' = "read"
    /\ UNCHANGED <<input, table, run, conn, cursor, filtered, sortedInput,
                   pos, pending, issued, uploads, err, errStage, exit,
                   tableBefore>>

\* line 18 raises (the store rejects the query)
GetNextIndexFail ==
    /\ pc = "query"
    /\ Raise("DatabaseError", "query")
    /\ UNCHANGED <<input, table, run, conn, cursor, start_idx, filtered,
                   sortedInput, pos, pending, issued, uploads, out, exit,
                   tableBefore>>

\* line 55: sorted() drains read_input(); row['customer'] (line 27) and
\* itemgetter('time') (line 33) raise KeyError when the column is missing
ReadSort ==
    /\ pc = "read"
    /\ IF rows # <<>> /\ "customer" \notin header
       THEN /\ Raise("KeyError", "read")
            /\ UNCHANGED <<filtered, sortedInput>>
       ELSE IF read_input(rows) # <<>> /\ "time" \notin header
       THEN /\ Raise("KeyError", "read")
            /\ filtered' = read_input(rows)
            /\ UNCHANGED sortedInput
       ELSE /\ filtered' = read_input(rows)
            /\ sortedInput' = sort_input(read_input(rows))
            /\ pc' = "skip"
            /\ UNCHANGED <<err, errStage>>
    /\ UNCHANGED <<input, table, run, conn, cursor, start_idx, pos, pending,
                   issued, uploads, out, exit, tableBefore>>

\* lines 56-57: next() past the end raises StopIteration
Skip ==
    /\ pc = "skip"
    /\ IF start_idx > Len(sortedInput)
       THEN /\ Raise("StopIteration", "skip")
            /\ pos' = Len(sortedInput)
       ELSE /\ pos' = start_idx
            /\ pc' = "upload"
            /\ UNCHANGED <<err, errStage>>
    /\ UNCHANGED <<input, table, run, conn, cursor, start_idx, filtered,
                   sortedInput, pending, issued, uploads, out, exit,
                   tableBefore>>

\* lines 60-72, one iteration whose INSERT succeeds
UploadRow ==
    /\ pc = "upload"
    /\ pos < Len(sortedInput)
    /\ "namespace" \in header
    /\ pending' = Append(pending, sortedInput[pos + 1])
    /\ issued' = Append(issued, sortedInput[pos + 1])
    /\ uploads' = [uploads EXCEPT ![pos + 1] = @ + 1]
    /\ out' = Append(out, <<"time to process row", pos>>)
    /\ pos' = pos + 1
    /\ UNCHANGED <<input, table, run, pc, conn, cursor, start_idx, filtered,
                   sortedInput, err, errStage, exit, tableBefore>>

\* line 66: v['namespace'] raises KeyError before the INSERT is issued
UploadRowMalformed ==
    /\ pc = "upload"
    /\ pos < Len(sortedInput)
    /\ "namespace" \notin header
    /\ Raise("KeyError", "upload")
    /\ pos' = pos + 1
    /\ UNCHANGED <<input, table, run, conn, cursor, start_idx, filtered,
                   sortedInput, pending, issued, uploads, out, exit,
                   tableBefore>>

\* line 36 raises (constraint violation, type mismatch, lost connection)
UploadRowFail ==
    /\ pc = "upload"
    /\ pos < Len(sortedInput)
    /\ "namespace" \in header
    /\ Raise("DatabaseError", "upload")
    /\ pos' = pos + 1
    /\ UNCHANGED <<input, table, run, conn, cursor, start_idx, filtered,
                   sortedInput, pending, issued, uploads, out, exit,
                   tableBefore>>

\* line 74: db is not defined anywhere, so db.commit() raises NameError
Commit ==
    /\ pc = "upload"
    /\ pos = Len(sortedInput)
    /\ Raise("NameError", "commit")
    /\ UNCHANGED <<input, table, run, conn, cursor, start_idx, filtered,
                   sortedInput, pos, pending, issued, uploads, out, exit,
                   tableBefore>>

\* variant of Except whose handler prints nothing
ExceptSilent ==
    /\ pc = "except"
    /\ pc' = "finally"
    /\ UNCHANGED <<input, table, run, conn, cursor, start_idx, filtered,
                   sortedInput, pos, pending, issued, uploads, err, errStage,
                   out, exit, tableBefore>>

\* lines 76-77: print(e)
Except ==
    /\ pc = "except"
    /\ out' = Append(out, <<"error", err>>)
    /\ pc' = "finally"
    /\ UNCHANGED <<input, table, run, conn, cursor, start_idx, filtered,
                   sortedInput, pos, pending, issued, uploads, err, errStage,
                   exit, tableBefore>>

\* variant of Closed that closes only when the run raised nothing
ClosedLeak(r) == IF r = "open" /\ err # "none" THEN "open" ELSE "closed"

\* cursor.close() / conn.close()
Closed(r) == "closed"

\* lines 79-81
Finally ==
    /\ pc = "finally"
    /\ cursor' = Closed(cursor)
    /\ conn' = Closed(conn)
    /\ table' = ConnClose(table, pending, firstId)
    /\ pending' = <<>>
    /\ exit' = "clean"
    /\ pc' = "done"
    /\ UNCHANGED <<input, run, start_idx, filtered, sortedInput, pos, issued,
                   uploads, err, errStage, out, tableBefore>>

\* lines 83-84: the script is started again over the same file
NextRun ==
    /\ pc = "done"
    /\ run < MaxRuns
    /\ run' = run + 1
    /\ pc' = "connect"
    /\ conn' = "none"
    /\ cursor' = "none"
    /\ start_idx' = 0
    /\ filtered' = <<>>
    /\ sortedInput' = <<>>
    /\ pos' = 0
    /\ pending' = <<>>
    /\ issued' = <<>>
    /\ err' = "none"
    /\ errStage' = "none"
    /\ out' = <<>>
    /\ exit' = "running"
    /\ tableBefore' = table
    /\ UNCHANGED <<input, table, uploads>>

Next ==
    \/ ConnectOk
    \/ ConnectFail
    \/ GetNextIndexOk
    \/ GetNextIndexFail
    \/ ReadSort
    \/ Skip
    \/ UploadRow
    \/ UploadRowMalformed
    \/ UploadRowFail
    \/ Commit
    \/ Except
    \/ Finally
    \/ NextRun

Spec == Init /\ [][Next]_vars

\* ------------------------------------------------------------- properties
\* the records a reader that drops exactly the reserved-prefix customers
\* yields, and their order under a stable sort on the time string
HasPrefix(c) ==
    \A i \in 1..Len(RESERVED_PREFIX) : i <= Len(c) /\ c[i] = RESERVED_PREFIX[i]

KeepRow(r) == ~HasPrefix(r.customer)

Kept == SelectSeq(rows, KeepRow)

RECURSIVE LexLess(_, _)
LexLess(a, b) ==
    IF b = <<>> THEN FALSE
    ELSE IF a = <<>> THEN TRUE
    ELSE \/ Ord(Head(a)) < Ord(Head(b))
         \/ (Head(a) = Head(b) /\ LexLess(Tail(a), Tail(b)))

Before(K, j, k) ==
    \/ LexLess(K[j].time, K[k].time)
    \/ (K[j].time = K[k].time /\ j < k)

Expected ==
    LET K == Kept
        n == Len(K)
        rank == [k \in 1..n |-> 1 + Cardinality({j \in 1..n : Before(K, j, k)})]
    IN  [i \in 1..n |-> K[CHOOSE k \in 1..n : rank[k] = i]]

FourKinds ==
    \/ errStage = "connect"
    \/ err = "KeyError"
    \/ errStage = "skip"
    \/ (errStage = "upload" /\ err = "DatabaseError")

\* C1: over consecutive runs on the same file, INSERT_QUERY is executed at
\* most once for every record of the filtered, sorted sequence.
C1_NoRecordUploadedTwice ==
    \A i \in DOMAIN uploads : uploads[i] <= 1

\* C2: the number of records a run skips equals the number of rows already
\* in the analytics table.
C2_SkipEqualsPersisted ==
    pc = "read" => start_idx = Len(table)

\* C3: a run in which the offset query, the skip and every insert succeeded
\* leaves the rows it inserted in the analytics table.
C3_SuccessCommits ==
    (pc = "done" /\ errStage \in {"none", "commit"}) =>
        /\ Len(table) = Len(tableBefore) + Len(issued)
        /\ \A i \in 1..Len(issued) : table[Len(tableBefore) + i].rec = issued[i]

\* C4: after an exception in the insert loop the run executes no further
\* insert, and the table after the run is the table before the run.
C4_LoopErrorAbortsAndRollsBack ==
    /\ []((pc = "done" /\ errStage = "upload") => table = tableBefore)
    /\ [][(errStage = "upload" /\ run' = run) =>
             (issued' = issued /\ uploads' = uploads)]_vars

C4_Witness ==
    pc = "done" /\ errStage = "upload" /\ err = "DatabaseError" /\ Len(issued) >= 1

\* C5: a resume offset beyond the end of the sequence ends the run with an
\* error that leaves main() instead of being swallowed.
C5_SkipPastEndSurfaces ==
    (pc = "done" /\ errStage = "skip") => exit = "uncaught"

C7_ResourcesClosed ==
    pc = "done" => (conn # "open" /\ cursor # "open")

C7_Witness ==
    pc = "done" /\ errStage = "query" /\ conn = "closed" /\ cursor = "closed"

\* C8: get_next_index returns the maximum id plus one for every non-empty
\* table, 0 for the empty table, and leaves the table as it was.
C8_NextIndexIsMaxPlusOne ==
    pc = "read" =>
        /\ start_idx = (IF table = <<>> THEN 0 ELSE MaxId(table) + 1)
        /\ table = tableBefore

\* C9: with offset N within the sequence, the inserts a run executes are the
\* records at positions N, N+1, ... of the filtered records in stable order
\* of the time string, in that order and each once, none of them among the
\* first N; a run that completes the loop has executed all of them.
C9_UploadsSuffixInOrder ==
    (pc = "upload" \/ errStage \in {"upload", "commit"}) =>
        LET E == Expected IN
        /\ sortedInput = E
        /\ start_idx <= Len(E)
        /\ issued = SubSeq(E, start_idx + 1, start_idx + Len(issued))
        /\ errStage = "commit" => issued = SubSeq(E, start_idx + 1, Len(E))

C9_Witness ==
    /\ errStage = "commit"
    /\ start_idx = 0
    /\ Len(issued) = 3
    /\ issued[1].time = S_t10
    /\ issued[2].time = S_t9 /\ issued[3].time = S_t9
    /\ issued[2] # issued[3]
    /\ rows[1] = issued[2]

\* C10: read_input yields, in file order, exactly the rows whose customer
\* does not start with 'user-study', so no such row has a position in the
\* sequence the skip counts over.
C10_FilterDropsExactlyPrefixed ==
    (pc \in {"skip", "upload"} \/ errStage \in {"skip", "upload", "commit"}) =>
        /\ filtered = Kept
        /\ \A i \in 1..Len(sortedInput) : ~HasPrefix(sortedInput[i].customer)

C10_Witness ==
    /\ pc = "skip"
    /\ Len(rows) = 3 /\ Len(filtered) = 2
    /\ rows[2].customer = S_study42
    /\ filtered[1].customer = S_userstud
    /\ filtered[2].customer = S_acme

====
